---- MODULE Spec2Model ----
(***************************************************************************)
(* pydanticInput: a form generator that maps a pydantic model (a tree of   *)
(* typed fields) to a tree of Qt editors and a matching tree of getters.   *)
(*                                                                         *)
(* The model follows src/pydanticInput: dispatch.py (type_dispatch),       *)
(* handlers/std_types.py, handlers/special_forms.py,                        *)
(* handlers/pydantic_types.py (the builders), widgets.py (ListEditWidget,  *)
(* DictEditWidget) and main.py (Input).                                    *)
(*                                                                         *)
(* Python values are tagged tuples <<tag, payload>>; text (what repr       *)
(* produces and ast.literal_eval consumes) is a sequence of one-character  *)
(* strings.  The outcome of a call that may raise is <<"ok", value>> or    *)
(* <<"raise", exception name>>.                                            *)
(***************************************************************************)
EXTENDS Integers, Sequences, FiniteSets, TLC

\* ------------------------------------------------------------------------
\* Bounds of the model
\* ------------------------------------------------------------------------

\* most entries a ListEditWidget holds in the model
MaxItems == 3

\* most rows a DictEditWidget holds in the model
MaxPairs == 2

\* depth of nested handler calls the interpreter allows before RecursionError
MaxDepth == 6

\* ------------------------------------------------------------------------
\* The type universe: every annotation the modelled schemas mention.
\* origin  = typing.get_origin(t) ("None" when there is none)
\* isType  = isinstance(t, type)
\* mro     = the classes t is a subclass of (itself included)
\* args    = typing.get_args(t)
\* fields  = t.__pydantic_fields__ as a sequence of <<name, annotation>>,
\*           or <<name, annotation, ge, le>> for a field declared with
\*           Field(ge=..., le=...)
\* members = the member values of an Enum, in declaration order
\* ------------------------------------------------------------------------

Cls(name, bases) ==
    [origin |-> "None", isType |-> TRUE, mro |-> {name, "object"} \cup bases,
     args |-> <<>>, fields |-> <<>>, members |-> <<>>, literals |-> <<>>]

Generic(origin, args) ==
    [origin |-> origin, isType |-> FALSE, mro |-> {},
     args |-> args, fields |-> <<>>, members |-> <<>>, literals |-> <<>>]

EnumCls(name, bases, members) ==
    [Cls(name, bases \cup {"Enum"}) EXCEPT !.members = members]

Model(name, fields) ==
    [Cls(name, {"BaseModel"}) EXCEPT !.fields = fields]

LiteralOf(vals) ==
    [Generic("Literal", <<>>) EXCEPT !.literals = vals]

S_empty == <<>>
S_a == <<"a">>
S_b == <<"b">>
S_NewYork == <<"N", "e", "w", " ", "Y", "o", "r", "k">>
S_Chicago == <<"C", "h", "i", "c", "a", "g", "o">>
S_red == <<"r", "e", "d">>
S_blue == <<"b", "l", "u", "e">>

TypeInfo(t) ==
    CASE t = "int" ->
             Cls("int", {})
      [] t = "float" ->
             Cls("float", {})
      [] t = "Decimal" ->
             Cls("Decimal", {})
      [] t = "str" ->
             Cls("str", {})
      [] t = "bool" ->
             Cls("bool", {"int"})
      [] t = "datetime" ->
             Cls("datetime", {"date"})
      [] t = "date" ->
             Cls("date", {})
      [] t = "time" ->
             Cls("time", {})
      [] t = "NoneType" ->
             Cls("NoneType", {})
      [] t = "list" ->
             Cls("list", {})
      [] t = "dict" ->
             Cls("dict", {})
      [] t = "tuple" ->
             Cls("tuple", {})
      [] t = "set" ->
             Cls("set", {})
      [] t = "MyInt" ->
             Cls("MyInt", {"int"})
      [] t = "Any" ->
             [Cls("Any", {}) EXCEPT !.isType = FALSE]
      [] t = "Color" ->
             EnumCls("Color", {}, << <<"str", S_red>>, <<"str", S_blue>> >>)
      [] t = "CityEnum" ->
             EnumCls("CityEnum", {"str"},
                              << <<"str", S_NewYork>>, <<"str", S_Chicago>> >>)
      [] t = "Priority" ->
             EnumCls("Priority", {}, << <<"int", 1>>, <<"int", 2>> >>)
      [] t = "tuple[int, int]" ->
             Generic("tuple", <<"int", "int">>)
      [] t = "list[int]" ->
             Generic("list", <<"int">>)
      [] t = "list[date]" ->
             Generic("list", <<"date">>)
      [] t = "list[set]" ->
             Generic("list", <<"set">>)
      [] t = "dict[str, int]" ->
             Generic("dict", <<"str", "int">>)
      [] t = "dict[str, date]" ->
             Generic("dict", <<"str", "date">>)
      [] t = "dict[list[int], int]" ->
             Generic("dict", <<"list[int]", "int">>)
      [] t = "dict[str, tuple]" ->
             Generic("dict", <<"str", "tuple">>)
      [] t = "dict[Any, int]" ->
             Generic("dict", <<"Any", "int">>)
      [] t = "Literal['a', 'b']" ->
             LiteralOf(<< <<"str", S_a>>, <<"str", S_b>> >>)
      [] t = "Literal[1, 2]" ->
             LiteralOf(<< <<"int", 1>>, <<"int", 2>> >>)
      [] t = "Literal[1, '1']" ->
             LiteralOf(<< <<"int", 1>>, <<"str", <<"1">>>> >>)
      [] t = "Optional[str]" ->
             Generic("Union", <<"str", "NoneType">>)
      [] t = "Union[int, str]" ->
             Generic("Union", <<"int", "str">>)
      [] t = "int | bool" ->
             Generic("UnionType", <<"int", "bool">>)
      [] t = "Union[int, dict]" ->
             Generic("Union", <<"int", "dict">>)
      [] t = "Union[list[date], int]" ->
             Generic("Union", <<"list[date]", "int">>)
      [] t = "Optional[Address]" ->
             Generic("Union", <<"Address", "NoneType">>)
    \* the models handed to Input
      [] t = "Person" ->
             Model("Person", << <<"name", "str">>, <<"age", "int">> >>)
      [] t = "Address" ->
             Model("Address", << <<"street", "str">> >>)
      [] t = "Numbers" ->
             Model("Numbers",
            << <<"height", "float">>, <<"balance", "Decimal">>,
               <<"active", "bool">> >>)
      [] t = "Moments" ->
             Model("Moments",
            << <<"born", "date">>, <<"at", "time">>, <<"now", "datetime">> >>)
      [] t = "Choices" ->
             Model("Choices",
            << <<"city", "CityEnum">>, <<"color", "Color">>,
               <<"mode", "Literal['a', 'b']">>, <<"nothing", "NoneType">> >>)
      [] t = "Bounded" ->
             Model("Bounded", << <<"level", "int", 1, 2>> >>)
      [] t = "Ranked" ->
             Model("Ranked", << <<"priority", "Priority">> >>)
      [] t = "Mixed" ->
             Model("Mixed",
            << <<"level", "Literal[1, 2]">>, <<"pick", "Literal[1, '1']">> >>)
      [] t = "Contact" ->
             Model("Contact",
            << <<"nickname", "Optional[str]">>, <<"info", "Union[int, str]">>,
               <<"flag", "int | bool">> >>)
      [] t = "Tags" ->
             Model("Tags", << <<"tags", "list[int]">> >>)
      [] t = "Days" ->
             Model("Days",
            << <<"title", "str">>, <<"days", "list[date]">>,
               <<"done", "bool">> >>)
      [] t = "Prefs" ->
             Model("Prefs", << <<"prefs", "dict[str, int]">> >>)
      [] t = "Stamps" ->
             Model("Stamps", << <<"stamps", "dict[str, date]">> >>)
      [] t = "Index" ->
             Model("Index", << <<"index", "dict[list[int], int]">> >>)
      [] t = "Home" ->
             Model("Home",
            << <<"owner", "str">>, <<"address", "Address">>,
               <<"previous", "Optional[Address]">> >>)
      [] t = "Either" ->
             Model("Either", << <<"either", "Union[list[date], int]">> >>)
    \* models with a type no rule matches somewhere inside
      [] t = "BadRaw" ->
             Model("BadRaw", << <<"n", "int">>, <<"xs", "list">> >>)
      [] t = "BadSub" ->
             Model("BadSub", << <<"k", "MyInt">> >>)
      [] t = "BadPair" ->
             Model("BadPair", << <<"p", "tuple[int, int]">> >>)
      [] t = "BadItem" ->
             Model("BadItem", << <<"xs", "list[set]">> >>)
      [] t = "BadValue" ->
             Model("BadValue", << <<"m", "dict[str, tuple]">> >>)
      [] t = "BadKey" ->
             Model("BadKey", << <<"m", "dict[Any, int]">> >>)
      [] t = "BadBranch" ->
             Model("BadBranch",
            << <<"s", "str">>, <<"u", "Union[int, dict]">> >>)
      [] t = "BadNested" ->
             Model("BadNested",
            << <<"ok", "Person">>, <<"inner", "BadBranch">> >>)
    \* a model that contains itself
      [] t = "Optional[Node]" ->
             Generic("Union", <<"Node", "NoneType">>)
      [] t = "Node" ->
             Model("Node",
            << <<"value", "int">>, <<"next", "Optional[Node]">> >>)

TypeIds ==
    {"int", "float", "Decimal", "str",
     "bool", "datetime", "date", "time",
     "NoneType", "list", "dict", "tuple",
     "set", "MyInt", "Any", "Color", "Priority", "Literal[1, 2]",
     "Literal[1, '1']", "Ranked", "Mixed", "Bounded", "dict[str, date]",
     "Stamps",
     "CityEnum", "tuple[int, int]", "list[int]", "list[date]",
     "list[set]", "dict[str, int]", "dict[list[int], int]", "dict[str, tuple]",
     "dict[Any, int]", "Literal['a', 'b']", "Optional[str]", "Union[int, str]",
     "int | bool", "Union[int, dict]", "Union[list[date], int]", "Optional[Address]",
     "Person", "Address", "Numbers", "Moments",
     "Choices", "Contact", "Tags", "Days",
     "Prefs", "Index", "Home", "Either",
     "BadRaw", "BadSub", "BadPair", "BadItem",
     "BadValue", "BadKey", "BadBranch", "BadNested",
     "Optional[Node]", "Node"}

\* the models a session may be started with
Models ==
    {"Person", "Numbers", "Bounded", "Moments", "Choices", "Ranked", "Mixed",
     "Contact", "Stamps",
     "Tags", "Days",
     "Prefs", "Index", "Home", "Either", "BadRaw", "BadSub", "BadPair",
     "BadItem", "BadValue", "BadKey", "BadBranch", "BadNested", "Node"}

get_origin(t) == TypeInfo(t).origin

get_args(t) == TypeInfo(t).args

isinstance_type(t) == TypeInfo(t).isType

issubclass(t, c) == c \in TypeInfo(t).mro

\* ------------------------------------------------------------------------
\* dispatch.py: type_dispatch.  The result is the handler's name, or
\* "raise" for the NotImplementedError at the end of the function.
\* ------------------------------------------------------------------------

\* type_dispatch with the int rule written as a subclass test
type_dispatch_subclass(field_type) ==
    LET origin_type == get_origin(field_type) IN
    IF origin_type = "None" /\ isinstance_type(field_type)
    THEN IF issubclass(field_type, "int") THEN "handle_int"
         ELSE IF field_type \in {"float", "Decimal"} THEN "handle_numeric"
         ELSE IF field_type = "str" THEN "handle_str"
         ELSE IF field_type = "bool" THEN "handle_bool"
         ELSE IF field_type = "datetime" THEN "handle_datetime"
         ELSE IF field_type = "date" THEN "handle_date"
         ELSE IF field_type = "time" THEN "handle_time"
         ELSE IF issubclass(field_type, "Enum") THEN "handle_enums"
         ELSE IF issubclass(field_type, "BaseModel") THEN "handle_BaseModel"
         ELSE IF field_type = "NoneType" THEN "handle_None"
         ELSE "raise"
    ELSE IF origin_type = "list" THEN "handle_list"
    ELSE IF origin_type = "dict" THEN "handle_dict"
    ELSE IF origin_type = "Literal" THEN "handle_literal"
    ELSE IF origin_type = "Union" \/ origin_type = "UnionType"
         THEN "handle_union"
    ELSE "raise"

\* type_dispatch with a line edit as the handler of last resort
type_dispatch_default(field_type) ==
    LET origin_type == get_origin(field_type) IN
    IF origin_type = "None" /\ isinstance_type(field_type)
    THEN IF field_type = "int" THEN "handle_int"
         ELSE IF field_type \in {"float", "Decimal"} THEN "handle_numeric"
         ELSE IF field_type = "str" THEN "handle_str"
         ELSE IF field_type = "bool" THEN "handle_bool"
         ELSE IF field_type = "datetime" THEN "handle_datetime"
         ELSE IF field_type = "date" THEN "handle_date"
         ELSE IF field_type = "time" THEN "handle_time"
         ELSE IF issubclass(field_type, "Enum") THEN "handle_enums"
         ELSE IF issubclass(field_type, "BaseModel") THEN "handle_BaseModel"
         ELSE IF field_type = "NoneType" THEN "handle_None"
         ELSE "handle_str"
    ELSE IF origin_type = "list" THEN "handle_list"
    ELSE IF origin_type = "dict" THEN "handle_dict"
    ELSE IF origin_type = "Literal" THEN "handle_literal"
    ELSE IF origin_type = "Union" \/ origin_type = "UnionType"
         THEN "handle_union"
    ELSE "handle_str"

type_dispatch(field_type) ==
    LET origin_type == get_origin(field_type) IN
    IF origin_type = "None" /\ isinstance_type(field_type)
    THEN IF field_type = "int" THEN "handle_int"
         ELSE IF field_type \in {"float", "Decimal"} THEN "handle_numeric"
         ELSE IF field_type = "str" THEN "handle_str"
         ELSE IF field_type = "bool" THEN "handle_bool"
         ELSE IF field_type = "datetime" THEN "handle_datetime"
         ELSE IF field_type = "date" THEN "handle_date"
         ELSE IF field_type = "time" THEN "handle_time"
         ELSE IF issubclass(field_type, "Enum") THEN "handle_enums"
         ELSE IF issubclass(field_type, "BaseModel") THEN "handle_BaseModel"
         ELSE IF field_type = "NoneType" THEN "handle_None"
         ELSE "raise"
    ELSE IF origin_type = "list" THEN "handle_list"
    ELSE IF origin_type = "dict" THEN "handle_dict"
    ELSE IF origin_type = "Literal" THEN "handle_literal"
    ELSE IF origin_type = "Union" \/ origin_type = "UnionType"
         THEN "handle_union"
    ELSE "raise"

\* the exception type_dispatch raises: its message embeds the offending type
NotImplementedError(field_type) ==
    [exc |-> "NotImplementedError", type |-> field_type]

NoError == [exc |-> "None", type |-> "None"]


\* ------------------------------------------------------------------------
\* Python values and their text
\* ------------------------------------------------------------------------

None == <<"None">>

PyInt(n) == <<"int", n>>

\* a float with integral value n (n.0)
PyFloat(n) == <<"float", n>>

PyStr(chars) == <<"str", chars>>

PyBool(b) == <<"bool", b>>

\* date, time and datetime values carry the argument text of their repr
PyDate(argtext) == <<"date", argtext>>

PyTime(argtext) == <<"time", argtext>>

PyDateTime(argtext) == <<"datetime", argtext>>

PyList(vals) == <<"list", vals>>

\* a dict is its items in insertion order
PyDict(items) == <<"dict", items>>

EmptyDict == PyDict(<<>>)

\* the str that is a field's name
FieldName(name) == <<"name", name>>

Ok(v) == <<"ok", v>>

Raise(exc) == <<"raise", exc>>

IsOk(out) == out[1] = "ok"

Range(seq) == {seq[i] : i \in DOMAIN seq}

Digits == <<"0", "1", "2", "3", "4", "5", "6", "7", "8", "9">>

IsDigit(c) == c \in Range(Digits)

DigitVal(c) == CHOOSE d \in 0..9 : Digits[d + 1] = c

RECURSIVE NatText(_)
NatText(n) ==
    IF n < 10 THEN <<Digits[n + 1]>>
    ELSE NatText(n \div 10) \o <<Digits[(n % 10) + 1]>>

IntText(n) == IF n < 0 THEN <<"-">> \o NatText(0 - n) ELSE NatText(n)

RECURSIVE NatOf(_)
NatOf(text) ==
    IF text = <<>> THEN 0
    ELSE NatOf(SubSeq(text, 1, Len(text) - 1)) * 10 + DigitVal(text[Len(text)])

T_None == <<"N", "o", "n", "e">>
T_True == <<"T", "r", "u", "e">>
T_False == <<"F", "a", "l", "s", "e">>
T_date == <<"d", "a", "t", "e", "t", "i", "m", "e", ".", "d", "a", "t", "e", "(">>
T_time == <<"d", "a", "t", "e", "t", "i", "m", "e", ".", "t", "i", "m", "e", "(">>
T_datetime ==
    <<"d", "a", "t", "e", "t", "i", "m", "e", ".",
      "d", "a", "t", "e", "t", "i", "m", "e", "(">>

\* QDateEdit, QTimeEdit and QDateTimeEdit start at 2000-01-01 00:00:00
A_2000_1_1 == <<"2", "0", "0", "0", ",", " ", "1", ",", " ", "1">>
A_2024_2_29 == <<"2", "0", "2", "4", ",", " ", "2", ",", " ", "2", "9">>
A_0_0 == <<"0", ",", " ", "0">>
A_12_30 == <<"1", "2", ",", " ", "3", "0">>
A_2000_1_1_0_0 == A_2000_1_1 \o <<",", " ">> \o A_0_0
A_2024_2_29_12_30 == A_2024_2_29 \o <<",", " ">> \o A_12_30

\* repr of a str: single quotes unless the text has one and no double quote
StrRepr(chars) ==
    IF "'" \in Range(chars) /\ "\"" \notin Range(chars)
    THEN <<"\"">> \o chars \o <<"\"">>
    ELSE <<"'">> \o chars \o <<"'">>

\* repr(value) for the values the modelled editors produce
repr(v) ==
    CASE v[1] = "int" -> IntText(v[2])
      [] v[1] = "float" -> IntText(v[2]) \o <<".", "0">>
      [] v[1] = "str" -> StrRepr(v[2])
      [] v[1] = "bool" -> IF v[2] THEN T_True ELSE T_False
      [] v[1] = "None" -> T_None
      [] v[1] = "date" -> T_date \o v[2] \o <<")">>
      [] v[1] = "time" -> T_time \o v[2] \o <<")">>
      [] v[1] = "datetime" -> T_datetime \o v[2] \o <<")">>

\* str(value): a str is its own text, everything else prints as its repr
str(v) == IF v[1] = "str" THEN v[2] ELSE repr(v)

AllDigits(text) == text # <<>> /\ \A i \in DOMAIN text : IsDigit(text[i])

\* a decimal integer literal: no leading zero unless it is "0"
IsNatLiteral(text) == AllDigits(text) /\ (Len(text) > 1 => text[1] # "0")

IsQuoted(text) ==
    /\ Len(text) >= 2
    /\ text[1] \in {"'", "\""}
    /\ text[Len(text)] = text[1]
    /\ \A i \in 2..(Len(text) - 1) : text[i] \notin {text[1], "\\"}

DotAt(text) == CHOOSE i \in DOMAIN text : text[i] = "."

IsFloatLiteral(text) ==
    /\ Cardinality({i \in DOMAIN text : text[i] = "."}) = 1
    /\ AllDigits(SubSeq(text, 1, DotAt(text) - 1))
    /\ AllDigits(SubSeq(text, DotAt(text) + 1, Len(text)))

\* ast.literal_eval on the literals repr can produce here: numbers with an
\* optional sign, quoted strings, None, True, False.  Anything else parses
\* as a non-literal expression (ValueError) or does not parse (SyntaxError).
literal_eval(text) ==
    LET neg == text # <<>> /\ text[1] = "-"
        body == IF neg THEN Tail(text) ELSE text
        sign == IF neg THEN 0 - 1 ELSE 1
    IN  IF IsNatLiteral(body) THEN Ok(PyInt(sign * NatOf(body)))
        ELSE IF IsFloatLiteral(body) /\ SubSeq(body, DotAt(body) + 1, Len(body)) = <<"0">>
             THEN Ok(PyFloat(sign * NatOf(SubSeq(body, 1, DotAt(body) - 1))))
        ELSE IF IsQuoted(text) THEN Ok(PyStr(SubSeq(text, 2, Len(text) - 1)))
        ELSE IF text = T_None THEN Ok(None)
        ELSE IF text = T_True THEN Ok(PyBool(TRUE))
        ELSE IF text = T_False THEN Ok(PyBool(FALSE))
        ELSE IF text # <<>> /\ text[Len(text)] = ")" THEN Raise("ValueError")
        ELSE Raise("SyntaxError")


\* ------------------------------------------------------------------------
\* Editors.  One node per Binding (editor, getter); the node holds the
\* state of the Qt widgets the handler created for it:
\*   value      current value of a spin box, line edit, check box or
\*              date/time editor
\*   captured   the value the getter closed over when it was built
\*   minimum, maximum   the range of a spin box
\*   items      the entries of a combo box (text)
\*   value_map  handle_literal's value_map, as <<text, value>> in key order
\*   index      currentIndex of a combo box (-1: none)
\*   stackIndex currentIndex of a union's QStackedWidget (-1: none)
\*   stackCount number of widgets in the QStackedWidget
\*   rows       the item texts of a ListEditWidget, or the <<key text,
\*              value text>> rows of a DictEditWidget
\*   keys       DictEditWidget.__keys
\*   kids       the nodes built for the item / key, value / branches / fields
\*   names      the field names of a record, in field_val_map order
\* ------------------------------------------------------------------------

BlankNode ==
    [handler |-> "None", type |-> "None", value |-> None, captured |-> None,
     minimum |-> 0, maximum |-> 0, items |-> <<>>, value_map |-> <<>>,
     index |-> 0 - 1, stackIndex |-> 0 - 1, stackCount |-> 0,
     rows |-> <<>>, keys |-> {}, kids |-> <<>>, names |-> <<>>]

\* the build in progress: the nodes built so far, the number of Qt widgets
\* constructed so far, the type_dispatch calls made so far and their number
NewBuild == [heap |-> <<>>, created |-> 0, log |-> {}, dispatched |-> 0]

\* what a builder call produced: a node (ok) or an exception (error)
Built(st, node) ==
    [ok |-> TRUE, st |-> [st EXCEPT !.heap = Append(@, node)],
     id |-> Len(st.heap) + 1, error |-> NoError]

Failed(st, error) == [ok |-> FALSE, st |-> st, id |-> 0, error |-> error]

Widgets(st, n) == [st EXCEPT !.created = @ + n]

IntMin == 0 - 2147483647 - 1

IntMax == 2147483647

\* QDoubleSpinBox as constructed: the range is 0.0 to 99.99
handle_numeric_default(t, st) ==
    Built([st EXCEPT !.created = @ + 1],
          [BlankNode EXCEPT !.handler = "handle_numeric", !.type = t,
             !.value = <<"float", 0>>, !.minimum = 0, !.maximum = 99])

\* -------- handlers/std_types.py --------

handle_int(t, st) ==
    Built(Widgets(st, 1),
          [BlankNode EXCEPT !.handler = "handle_int", !.type = t,
             !.value = PyInt(0), !.minimum = IntMin, !.maximum = IntMax])

handle_numeric(t, st) ==
    Built(Widgets(st, 1),
          [BlankNode EXCEPT !.handler = "handle_numeric", !.type = t,
             !.value = PyFloat(0), !.minimum = IntMin, !.maximum = IntMax])

handle_str(t, st) ==
    Built(Widgets(st, 1),
          [BlankNode EXCEPT !.handler = "handle_str", !.type = t,
             !.value = PyStr(<<>>)])

handle_bool(t, st) ==
    Built(Widgets(st, 1),
          [BlankNode EXCEPT !.handler = "handle_bool", !.type = t,
             !.value = PyBool(FALSE)])

handle_None(t, st) ==
    Built(Widgets(st, 1),
          [BlankNode EXCEPT !.handler = "handle_None", !.type = t])

\* the getter is widget.dateTime().toPython: bound to the QDateTime read
\* while building
handle_datetime(t, st) ==
    Built(Widgets(st, 1),
          [BlankNode EXCEPT !.handler = "handle_datetime", !.type = t,
             !.value = PyDateTime(A_2000_1_1_0_0),
             !.captured = PyDateTime(A_2000_1_1_0_0)])

handle_date(t, st) ==
    Built(Widgets(st, 1),
          [BlankNode EXCEPT !.handler = "handle_date", !.type = t,
             !.value = PyDate(A_2000_1_1), !.captured = PyDate(A_2000_1_1)])

handle_time(t, st) ==
    Built(Widgets(st, 1),
          [BlankNode EXCEPT !.handler = "handle_time", !.type = t,
             !.value = PyTime(A_0_0), !.captured = PyTime(A_0_0)])

\* a combo box that gets its first entries makes entry 0 current
FirstIndex(items) == IF items = <<>> THEN 0 - 1 ELSE 0

\* widget.addItems([member.value for member in field.annotation]): the
\* entries are the member values, and QComboBox.addItems takes a sequence
\* of str only (TypeError for any other entry)
handle_enums(t, st) ==
    LET values == TypeInfo(t).members
        items == [i \in DOMAIN values |-> values[i][2]]
    IN  IF \E i \in DOMAIN values : values[i][1] # "str"
        THEN Failed(Widgets(st, 1), [exc |-> "TypeError", type |-> t])
        ELSE Built(Widgets(st, 1),
                   [BlankNode EXCEPT !.handler = "handle_enums", !.type = t,
                      !.items = items, !.index = FirstIndex(items)])

\* -------- handlers/special_forms.py: handle_literal --------

\* d[key] = value on a dict kept as <<key, value>> pairs in insertion order
DictSet(items, key, value) ==
    IF \E i \in DOMAIN items : items[i][1] = key
    THEN [i \in DOMAIN items |->
            IF items[i][1] = key THEN <<key, value>> ELSE items[i]]
    ELSE Append(items, <<key, value>>)

RECURSIVE DictOf(_, _)
\* a dict built from pairs, left to right
DictOf(pairs, acc) ==
    IF pairs = <<>> THEN acc
    ELSE DictOf(Tail(pairs), DictSet(acc, Head(pairs)[1], Head(pairs)[2]))

handle_literal(t, st) ==
    LET args == TypeInfo(t).literals
        value_map == DictOf([i \in DOMAIN args |-> <<str(args[i]), args[i]>>],
                            <<>>)
        items == [i \in DOMAIN value_map |-> value_map[i][1]]
    IN  Built(Widgets(st, 1),
              [BlankNode EXCEPT !.handler = "handle_literal", !.type = t,
                 !.items = items, !.value_map = value_map,
                 !.index = FirstIndex(items)])

\* -------- the builders that build other bindings --------

\* type_dispatch(t)(field): asField is FALSE only for Input's call, which
\* hands the model class itself to the handler
RECURSIVE Call(_, _, _, _)

RECURSIVE BuildEach(_, _, _)
\* build a binding for each type in turn; the first failure ends the loop
BuildEach(types, acc, fuel) ==
    IF types = <<>> \/ ~acc.ok THEN acc
    ELSE LET r == Call(Head(types), TRUE, acc.st, fuel)
         IN  BuildEach(Tail(types),
                       [ok |-> r.ok, st |-> r.st, error |-> r.error,
                        ids |-> IF r.ok THEN Append(acc.ids, r.id)
                                ELSE acc.ids],
                       fuel)

NoneBuilt(st) == [ok |-> TRUE, st |-> st, error |-> NoError, ids |-> <<>>]

handle_list(t, st, fuel) ==
    LET item_type == get_args(t)[1]
        item == Call(item_type, TRUE, st, fuel)
    IN  IF ~item.ok THEN Failed(item.st, item.error)
        ELSE Built(Widgets(item.st, 3),
                   [BlankNode EXCEPT !.handler = "handle_list", !.type = t,
                      !.kids = <<item.id>>])

handle_dict(t, st, fuel) ==
    LET key_type == get_args(t)[1]
        value_type == get_args(t)[2]
        key == Call(key_type, TRUE, st, fuel)
        value == Call(value_type, TRUE, key.st, fuel)
    IN  IF ~key.ok THEN Failed(key.st, key.error)
        ELSE IF ~value.ok THEN Failed(value.st, value.error)
        ELSE Built(Widgets(value.st, 3),
                   [BlankNode EXCEPT !.handler = "handle_dict", !.type = t,
                      !.kids = <<key.id, value.id>>])

\* QStackedWidget.setCurrentIndex: an index with no widget is ignored
setCurrentIndex(node, i) ==
    IF 0 <= i /\ i < node.stackCount
    THEN [node EXCEPT !.stackIndex = i] ELSE node

\* QComboBox.addItem: the first entry becomes current, and the change is
\* signalled to the slot connected to currentIndexChanged
addItem(node) ==
    IF node.index = 0 - 1
    THEN setCurrentIndex([node EXCEPT !.index = 0], 0)
    ELSE node

\* QStackedWidget.addWidget: the first widget becomes current
addWidget(node) ==
    [node EXCEPT !.stackCount = @ + 1,
                 !.stackIndex = IF @ = 0 - 1 THEN 0 ELSE @]

RECURSIVE AddBranches(_, _)
\* the loop over zip(widget_mapping, union_types)
AddBranches(n, node) ==
    IF n = 0 THEN node ELSE AddBranches(n - 1, addWidget(addItem(node)))

\* handle_union building a branch only when it is first needed: the first
\* branch now, the others not at all
handle_union_lazy(t, st, fuel) ==
    LET union_types == SubSeq(get_args(t), 1, 1)
        widget_mapping == BuildEach(union_types, NoneBuilt(Widgets(st, 3)),
                                    fuel)
    IN  IF ~widget_mapping.ok
        THEN Failed(widget_mapping.st, widget_mapping.error)
        ELSE Built(widget_mapping.st,
                   AddBranches(Len(union_types),
                       [BlankNode EXCEPT !.handler = "handle_union",
                          !.type = t, !.kids = widget_mapping.ids]))

handle_union(t, st, fuel) ==
    LET union_types == get_args(t)
        widget_mapping == BuildEach(union_types, NoneBuilt(Widgets(st, 3)),
                                    fuel)
    IN  IF ~widget_mapping.ok
        THEN Failed(widget_mapping.st, widget_mapping.error)
        ELSE Built(widget_mapping.st,
                   AddBranches(Len(union_types),
                       [BlankNode EXCEPT !.handler = "handle_union",
                          !.type = t, !.kids = widget_mapping.ids]))

\* -------- handlers/pydantic_types.py --------

handle_BaseModel(t, is_field_info, st, fuel) ==
    LET model_fields == TypeInfo(t).fields
        annotations == [i \in DOMAIN model_fields |-> model_fields[i][2]]
        shell == Widgets(st, IF is_field_info THEN 2 ELSE 1)
        field_val_map == BuildEach(annotations, NoneBuilt(shell), fuel)
        done == Widgets(field_val_map.st, IF is_field_info THEN 1 ELSE 0)
    IN  IF ~field_val_map.ok
        THEN Failed(field_val_map.st, field_val_map.error)
        ELSE Built(done,
                   [BlankNode EXCEPT !.handler = "handle_BaseModel",
                      !.type = t, !.kids = field_val_map.ids,
                      !.names = [i \in DOMAIN model_fields |->
                                   model_fields[i][1]]])

\* the call of the handler type_dispatch returned
Handle(handler, t, asField, st, fuel) ==
    CASE handler = "handle_int" -> handle_int(t, st)
      [] handler = "handle_numeric" -> handle_numeric(t, st)
      [] handler = "handle_str" -> handle_str(t, st)
      [] handler = "handle_bool" -> handle_bool(t, st)
      [] handler = "handle_datetime" -> handle_datetime(t, st)
      [] handler = "handle_date" -> handle_date(t, st)
      [] handler = "handle_time" -> handle_time(t, st)
      [] handler = "handle_enums" -> handle_enums(t, st)
      [] handler = "handle_None" -> handle_None(t, st)
      [] handler = "handle_literal" -> handle_literal(t, st)
      [] handler = "handle_list" -> handle_list(t, st, fuel - 1)
      [] handler = "handle_dict" -> handle_dict(t, st, fuel - 1)
      [] handler = "handle_union" -> handle_union(t, st, fuel - 1)
      [] handler = "handle_BaseModel" ->
             handle_BaseModel(t, asField, st, fuel - 1)

\* a builder with a depth guard: at the depth limit it returns an empty
\* placeholder binding instead of going deeper
Call_guarded(t, asField, st, fuel) ==
    LET handler == type_dispatch(t)
        st1 == [st EXCEPT !.log = @ \cup {<<t, handler>>},
                          !.dispatched = @ + 1]
    IN  IF handler = "raise" THEN Failed(st1, NotImplementedError(t))
        ELSE IF fuel = 0 THEN handle_None(t, st1)
        ELSE Handle(handler, t, asField, st1, fuel)

\* type_dispatch(t)(field).  Nothing stops a model that contains itself:
\* the calls nest until the interpreter's limit raises RecursionError.
Call(t, asField, st, fuel) ==
    LET handler == type_dispatch(t)
        st1 == [st EXCEPT !.log = @ \cup {<<t, handler>>},
                          !.dispatched = @ + 1]
    IN  IF handler = "raise" THEN Failed(st1, NotImplementedError(t))
        ELSE IF fuel = 0
             THEN Failed(st1, [exc |-> "RecursionError", type |-> t])
        ELSE Handle(handler, t, asField, st1, fuel)


\* ------------------------------------------------------------------------
\* The getters.  Get(h, id) is the call of node id's getter on the editors
\* h: its outcome, the nodes whose getters ran, in call order, and the
\* editors after the call.
\* ------------------------------------------------------------------------

Hashable(v) == v[1] \notin {"list", "dict"}

\* QComboBox.currentText
currentText(node) ==
    IF node.index = 0 - 1 THEN <<>> ELSE node.items[node.index + 1]

\* d[key] on a dict kept as <<key, value>> pairs
DictGet(items, key) ==
    IF \E i \in DOMAIN items : items[i][1] = key
    THEN Ok(items[CHOOSE i \in DOMAIN items : items[i][1] = key][2])
    ELSE Raise("KeyError")

RECURSIVE EvalEach(_, _)
\* [ast.literal_eval(text) for text in rows]
EvalEach(rows, acc) ==
    IF rows = <<>> THEN Ok(PyList(acc))
    ELSE LET v == literal_eval(Head(rows))
         IN  IF IsOk(v) THEN EvalEach(Tail(rows), Append(acc, v[2])) ELSE v

\* a getter that takes the entries out of the list as it reads them
get_values_take(node) ==
    [out |-> EvalEach(node.rows, <<>>), node |-> [node EXCEPT !.rows = <<>>]]

\* widgets.py: ListEditWidget.get_values: what the call returns or raises,
\* and the widget after the call (item(i).text() reads, nothing is written)
get_values(node) == [out |-> EvalEach(node.rows, <<>>), node |-> node]

RECURSIVE EvalPairs(_, _)
\* the loop of get_dict: a row that does not evaluate is skipped
EvalPairs(rows, result) ==
    IF rows = <<>> THEN result
    ELSE LET k == literal_eval(Head(rows)[1])
             v == literal_eval(Head(rows)[2])
         IN  IF IsOk(k) /\ IsOk(v) /\ Hashable(k[2])
             THEN EvalPairs(Tail(rows), DictSet(result, k[2], v[2]))
             ELSE EvalPairs(Tail(rows), result)

\* widgets.py: DictEditWidget.get_dict: the dict returned and the widget
\* after the call
get_dict(node) ==
    [out |-> Ok(PyDict(EvalPairs(node.rows, <<>>))), node |-> node]

RECURSIVE Get(_, _)

RECURSIVE GetEach(_, _, _, _)
\* {field_name: getter() for field_name, getter in field_val_map.items()}
GetEach(h, node, i, acc) ==
    IF i > Len(node.kids)
    THEN [out |-> Ok(PyDict(acc.items)), calls |-> acc.calls, heap |-> h]
    ELSE LET g == Get(h, node.kids[i])
         IN  IF IsOk(g.out)
             THEN GetEach(g.heap, node, i + 1,
                     [items |-> DictSet(acc.items, FieldName(node.names[i]),
                                        g.out[2]),
                      calls |-> acc.calls \o g.calls])
             ELSE [out |-> g.out, calls |-> acc.calls \o g.calls,
                   heap |-> g.heap]

\* special_forms.py: lambda: widget_mapping[stack.currentWidget()]()
union_getter(h, id) ==
    LET node == h[id]
    IN  IF node.stackIndex = 0 - 1
        THEN [out |-> Raise("KeyError"), calls |-> <<id>>, heap |-> h]
        ELSE LET g == Get(h, node.kids[node.stackIndex + 1])
             IN  [out |-> g.out, calls |-> <<id>> \o g.calls, heap |-> g.heap]

\* pydantic_types.py: the lambda handle_BaseModel returns
model_getter(h, id) == GetEach(h, h[id], 1, [items |-> <<>>, calls |-> <<id>>])

Get(h, id) ==
    LET node == h[id]
        just(out) == [out |-> out, calls |-> <<id>>, heap |-> h]
        widget(r) == [out |-> r.out, calls |-> <<id>>,
                      heap |-> [h EXCEPT ![id] = r.node]]
    IN  CASE node.handler \in {"handle_int", "handle_numeric", "handle_str",
                               "handle_bool"} -> just(Ok(node.value))
          [] node.handler \in {"handle_datetime", "handle_date",
                               "handle_time"} -> just(Ok(node.captured))
          [] node.handler = "handle_None" -> just(Ok(None))
          [] node.handler = "handle_enums" -> just(Ok(PyStr(currentText(node))))
          [] node.handler = "handle_literal" ->
                 just(DictGet(node.value_map, currentText(node)))
          [] node.handler = "handle_list" -> widget(get_values(node))
          [] node.handler = "handle_dict" -> widget(get_dict(node))
          [] node.handler = "handle_union" -> union_getter(h, id)
          [] node.handler = "handle_BaseModel" -> model_getter(h, id)

\* ------------------------------------------------------------------------
\* widgets.py: the edit operations of ListEditWidget and DictEditWidget
\* ------------------------------------------------------------------------

RemoveAt(seq, i) == SubSeq(seq, 1, i - 1) \o SubSeq(seq, i + 1, Len(seq))

\* ListEditWidget.add_value
add_value(node, item) == [node EXCEPT !.rows = Append(@, repr(item))]

\* ListEditWidget._show_context_menu, "Remove" chosen with row i current
takeItem(node, i) == [node EXCEPT !.rows = RemoveAt(@, i)]

\* add_pair without the test for a key that is already there
add_pair_always(node, key, value) ==
    IF ~Hashable(key)
    THEN [node |-> node, printed |-> "not hashable"]
    ELSE [node |-> [node EXCEPT !.keys = @ \cup {key},
                                !.rows = Append(@, <<repr(key), repr(value)>>)],
          printed |-> "None"]

\* DictEditWidget.add_pair: the widget after the call and the warning printed
add_pair(node, key, value) ==
    IF ~Hashable(key)
    THEN [node |-> node, printed |-> "not hashable"]
    ELSE IF key \in node.keys
    THEN [node |-> node, printed |-> "existing already"]
    ELSE [node |-> [node EXCEPT !.keys = @ \cup {key},
                                !.rows = Append(@, <<repr(key), repr(value)>>)],
          printed |-> "None"]

RECURSIVE removeEach(_, _)
\* for row in sorted(selected, reverse=True): self.removeRow(row)
removeEach(rows, selected) ==
    IF selected = {} THEN rows
    ELSE LET row == CHOOSE r \in selected : \A q \in selected : q <= r
         IN  removeEach(RemoveAt(rows, row), selected \ {row})

\* DictEditWidget._show_context_menu, "Remove Selected Row" chosen with the
\* rows in selected selected
removeRows(node, selected) ==
    [node EXCEPT !.rows = removeEach(@, selected)]

\* ------------------------------------------------------------------------
\* The session of main.py: Input(model)
\* ------------------------------------------------------------------------

VARIABLES
    pc,            \* "idle", "exec" (inside app.exec()), "raised", "returned"
    model,         \* the model Input was called with
    heap,          \* the editors of the form (after the return: as they
                   \* were when the session ended)
    root,          \* the node of the root binding (0: none)
    created,       \* Qt widgets constructed by the build
    log,           \* the type_dispatch calls of the build: <<type, result>>
    dispatched,    \* the number of type_dispatch calls of the build
    error,         \* the exception Input raised
    vals,          \* Input's vals
    getter_calls,  \* calls of the root getter
    button,        \* the button that ended the session
    printed        \* the warning the last action printed

vars == <<pc, model, heap, root, created, log, dispatched, error, vals, getter_calls,
          button, printed>>

\* what the user can enter into an editor
IntVals == {0, 1, 2, 3}

StrVals == {S_empty, S_a, S_b}

Entries(handler) ==
    CASE handler = "handle_int" -> {PyInt(n) : n \in IntVals}
      [] handler = "handle_numeric" -> {PyFloat(0), PyFloat(1), PyFloat(IntMax)}
      [] handler = "handle_str" -> {PyStr(c) : c \in StrVals}
      [] handler = "handle_bool" -> {PyBool(FALSE), PyBool(TRUE)}
      [] handler = "handle_date" -> {PyDate(A_2000_1_1), PyDate(A_2024_2_29)}
      [] handler = "handle_time" -> {PyTime(A_0_0), PyTime(A_12_30)}
      [] handler = "handle_datetime" ->
             {PyDateTime(A_2000_1_1_0_0), PyDateTime(A_2024_2_29_12_30)}
      [] OTHER -> {}

Nodes == DOMAIN heap

Parent(h, w) == CHOOSE p \in DOMAIN h : w \in Range(h[p].kids)

HasParent(h, w) == \E p \in DOMAIN h : w \in Range(h[p].kids)

RECURSIVE Shown(_, _)
\* the editor is on screen: every union above it shows the branch it is in
Shown(h, w) ==
    IF ~HasParent(h, w) THEN TRUE
    ELSE LET p == Parent(h, w)
         IN  /\ Shown(h, p)
             /\ h[p].handler = "handle_union" =>
                    /\ h[p].stackIndex # 0 - 1
                    /\ h[p].kids[h[p].stackIndex + 1] = w

\* Input showing whatever was built before the exception
Surface_partial(r) == r.st.heap

\* the binding Input gets hold of: none when the builder raised
Surface(r) == IF r.ok THEN r.st.heap ELSE <<>>

Init ==
    /\ pc = "idle"
    /\ model = "None"
    /\ heap = <<>>
    /\ root = 0
    /\ created = 0
    /\ log = {}
    /\ dispatched = 0
    /\ error = NoError
    /\ vals = EmptyDict
    /\ getter_calls = 0
    /\ button = "None"
    /\ printed = "None"

\* main.py: Input up to app.exec()
Input(m) ==
    /\ pc = "idle"
    /\ LET r == Call(m, FALSE, NewBuild, MaxDepth)
       IN  /\ pc' = IF r.ok THEN "exec" ELSE "raised"
           /\ heap' = Surface(r)
           /\ root' = r.id
           /\ created' = r.st.created
           /\ log' = r.st.log
           /\ dispatched' = r.st.dispatched
           /\ error' = r.error
    /\ model' = m
    /\ UNCHANGED <<vals, getter_calls, button, printed>>

\* the user edits a spin box, line edit, check box or date/time editor
SetValue(w, v) ==
    /\ pc = "exec"
    /\ Shown(heap, w)
    /\ v \in Entries(heap[w].handler)
    /\ v # heap[w].value
    /\ heap[w].handler \in {"handle_int", "handle_numeric"} =>
           (heap[w].minimum <= v[2] /\ v[2] <= heap[w].maximum)
    /\ heap' = [heap EXCEPT ![w].value = v]
    /\ printed' = "None"
    /\ UNCHANGED <<pc, model, root, created, log, dispatched, error, vals, getter_calls,
                   button>>

\* the user picks entry i of an enum's or a literal's combo box
SelectEntry(w, i) ==
    /\ pc = "exec"
    /\ Shown(heap, w)
    /\ heap[w].handler \in {"handle_enums", "handle_literal"}
    /\ i \in 0..(Len(heap[w].items) - 1)
    /\ i # heap[w].index
    /\ heap' = [heap EXCEPT ![w].index = i]
    /\ printed' = "None"
    /\ UNCHANGED <<pc, model, root, created, log, dispatched, error, vals, getter_calls,
                   button>>

\* the type selector's signal connected to nothing
currentIndexChanged_unconnected(node, i) == node

\* the slot handle_union connects to type_selector.currentIndexChanged
currentIndexChanged(node, i) == setCurrentIndex(node, i)

\* the user picks entry i of a union's type selector
SelectBranch(w, i) ==
    /\ pc = "exec"
    /\ Shown(heap, w)
    /\ heap[w].handler = "handle_union"
    /\ i \in 0..(Len(heap[w].kids) - 1)
    /\ i # heap[w].index
    /\ heap' = [heap EXCEPT
                  ![w] = currentIndexChanged([@ EXCEPT !.index = i], i)]
    /\ printed' = "None"
    /\ UNCHANGED <<pc, model, root, created, log, dispatched, error, vals, getter_calls,
                   button>>

\* an Add button that also puts the spin box of the item editor back to 0
ClickAdd_reset(w) ==
    /\ pc = "exec"
    /\ Shown(heap, w)
    /\ heap[w].handler = "handle_list"
    /\ Len(heap[w].rows) < MaxItems
    /\ LET g == Get(heap, heap[w].kids[1])
           item == g.out
           kid == heap[w].kids[1]
       IN  heap' = IF IsOk(item)
                   THEN [g.heap EXCEPT
                           ![w] = add_value(@, item[2]),
                           ![kid].value = IF heap[kid].handler = "handle_int"
                                          THEN PyInt(0) ELSE @]
                   ELSE g.heap
    /\ printed' = "None"
    /\ UNCHANGED <<pc, model, root, created, log, dispatched, error, vals,
                   getter_calls, button>>

\* handle_list's add_button.clicked: list_widget.add_value(item_getter())
ClickAdd(w) ==
    /\ pc = "exec"
    /\ Shown(heap, w)
    /\ heap[w].handler = "handle_list"
    /\ Len(heap[w].rows) < MaxItems
    /\ LET g == Get(heap, heap[w].kids[1])
           item == g.out
       IN  heap' = IF IsOk(item)
                   THEN [g.heap EXCEPT ![w] = add_value(@, item[2])]
                   ELSE g.heap
    /\ printed' = "None"
    /\ UNCHANGED <<pc, model, root, created, log, dispatched, error, vals, getter_calls,
                   button>>

\* "Remove" from the context menu of a ListEditWidget, entry i current
RemoveItem(w, i) ==
    /\ pc = "exec"
    /\ Shown(heap, w)
    /\ heap[w].handler = "handle_list"
    /\ i \in DOMAIN heap[w].rows
    /\ heap' = [heap EXCEPT ![w] = takeItem(@, i)]
    /\ printed' = "None"
    /\ UNCHANGED <<pc, model, root, created, log, dispatched, error, vals, getter_calls,
                   button>>

\* handle_dict's add_button.clicked:
\* dict_widget.add_pair(key_getter(), value_getter())
ClickAddPair(w) ==
    /\ pc = "exec"
    /\ Shown(heap, w)
    /\ heap[w].handler = "handle_dict"
    /\ LET gk == Get(heap, heap[w].kids[1])
           gv == Get(gk.heap, heap[w].kids[2])
           key == gk.out
           value == gv.out
       IN  IF IsOk(key) /\ IsOk(value)
           THEN LET r == add_pair(gv.heap[w], key[2], value[2])
                IN  /\ Len(r.node.rows) <= MaxPairs
                    /\ heap' = [gv.heap EXCEPT ![w] = r.node]
                    /\ printed' = r.printed
           ELSE /\ heap' = IF IsOk(key) THEN gv.heap ELSE gk.heap
                /\ printed' = "None"
    /\ UNCHANGED <<pc, model, root, created, log, dispatched, error, vals, getter_calls,
                   button>>

\* "Remove Selected Row" from the context menu of a DictEditWidget
RemoveRows(w, selected) ==
    /\ pc = "exec"
    /\ Shown(heap, w)
    /\ heap[w].handler = "handle_dict"
    /\ selected # {}
    /\ selected \subseteq DOMAIN heap[w].rows
    /\ heap' = [heap EXCEPT ![w] = removeRows(@, selected)]
    /\ printed' = "None"
    /\ UNCHANGED <<pc, model, root, created, log, dispatched, error, vals, getter_calls,
                   button>>

\* vals.update(d)
update(d, other) == PyDict(DictOf(other[2], d[2]))

\* btns.accepted: vals.update(getter()), then app.quit; Input returns vals.
\* An exception in the first slot is printed and the next slot still runs.
\* heap keeps the editors as they were when the session ended.
ClickOk ==
    /\ pc = "exec"
    /\ LET g == Get(heap, root)
       IN  /\ vals' = IF IsOk(g.out) THEN update(vals, g.out[2]) ELSE vals
           /\ heap' = g.heap
    /\ getter_calls' = getter_calls + 1
    /\ button' = "Ok"
    /\ pc' = "returned"
    /\ printed' = "None"
    /\ UNCHANGED <<model, root, created, log, dispatched, error>>

\* Cancel collecting the values like Ok does
ClickCancel_collect ==
    /\ pc = "exec"
    /\ LET g == Get(heap, root)
       IN  /\ vals' = IF IsOk(g.out) THEN update(vals, g.out[2]) ELSE vals
           /\ heap' = g.heap
    /\ getter_calls' = getter_calls + 1
    /\ button' = "Cancel"
    /\ pc' = "returned"
    /\ printed' = "None"
    /\ UNCHANGED <<model, root, created, log, dispatched, error>>

\* btns.rejected, or the window is closed: app.quit; Input returns vals
ClickCancel ==
    /\ pc = "exec"
    /\ button' = "Cancel"
    /\ pc' = "returned"
    /\ printed' = "None"
    /\ UNCHANGED <<model, heap, root, created, log, dispatched, error, vals, getter_calls>>

Next ==
    \/ \E m \in Models : Input(m)
    \/ \E w \in Nodes : \E v \in Entries(heap[w].handler) : SetValue(w, v)
    \/ \E w \in Nodes : \E i \in 0..(Len(heap[w].items) - 1) : SelectEntry(w, i)
    \/ \E w \in Nodes : \E i \in 0..(Len(heap[w].kids) - 1) : SelectBranch(w, i)
    \/ \E w \in Nodes : ClickAdd(w)
    \/ \E w \in Nodes : \E i \in DOMAIN heap[w].rows : RemoveItem(w, i)
    \/ \E w \in Nodes : ClickAddPair(w)
    \/ \E w \in Nodes : \E sel \in SUBSET (DOMAIN heap[w].rows) :
           RemoveRows(w, sel)
    \/ ClickOk
    \/ ClickCancel

Spec == Init /\ [][Next]_vars


\* ------------------------------------------------------------------------
\* Properties
\* ------------------------------------------------------------------------

\* the types the documentation of type_dispatch lists, by what they are
IsEnumType(t) == "Enum" \in TypeInfo(t).mro

IsRecordType(t) == "BaseModel" \in TypeInfo(t).mro

ClaimedHandler(t) ==
    CASE t = "int" -> "handle_int"
      [] t \in {"float", "Decimal"} -> "handle_numeric"
      [] t = "str" -> "handle_str"
      [] t = "bool" -> "handle_bool"
      [] t = "datetime" -> "handle_datetime"
      [] t = "date" -> "handle_date"
      [] t = "time" -> "handle_time"
      [] t = "NoneType" -> "handle_None"
      [] t \in {"Color", "CityEnum", "Priority"} -> "handle_enums"
      [] t \in {"list[int]", "list[date]", "list[set]"} -> "handle_list"
      [] t \in {"dict[str, int]", "dict[str, date]", "dict[list[int], int]",
                "dict[str, tuple]", "dict[Any, int]"} -> "handle_dict"
      [] t \in {"Literal['a', 'b']", "Literal[1, 2]", "Literal[1, '1']"} ->
             "handle_literal"
      [] t \in {"Optional[str]", "Union[int, str]", "int | bool",
                "Union[int, dict]", "Union[list[date], int]",
                "Optional[Address]", "Optional[Node]"} -> "handle_union"
      [] t \in Models \cup {"Address"} -> "handle_BaseModel"
      [] OTHER -> "None"

\* the types that match none of the supported tags
UnsupportedTypes ==
    {"list", "dict", "tuple", "set", "tuple[int, int]", "MyInt", "Any"}

SupportedTypes == TypeIds \ UnsupportedTypes

\* C1: type_dispatch is a function of the type and returns the handler of
\* the first matching rule: int -> int handler, float and Decimal -> numeric,
\* str -> string, bool -> bool (not int), datetime -> datetime (not date),
\* date -> date, time -> time, Enum subclasses (also str ones) -> enum,
\* BaseModel subclasses -> record, NoneType -> null, list[T] -> list,
\* dict[K, V] -> mapping, Literal -> literal, Union / Optional / T1 | T2 ->
\* union; every supported type the build dispatches gets exactly that one
\* handler.
C1_DispatchTable ==
    /\ \A d \in log : d[1] \in SupportedTypes => d[2] = ClaimedHandler(d[1])
    /\ \A d, e \in log : d[1] = e[1] => d[2] = e[2]
    /\ \A t \in SupportedTypes : ClaimedHandler(t) # "None"

C1_Witness ==
    /\ pc = "exec"
    /\ model = "Contact"
    /\ {<<"bool", "handle_bool">>, <<"int", "handle_int">>,
        <<"int | bool", "handle_union">>, <<"Optional[str]", "handle_union">>,
        <<"NoneType", "handle_None">>, <<"Contact", "handle_BaseModel">>}
           \subseteq log

\* C2: for a type that matches none of the supported tags (raw list, dict,
\* tuple, set, a parametrized tuple, an int subclass, a non-class object)
\* type_dispatch returns no handler: it raises NotImplementedError carrying
\* that type, and no dispatch fails in any other way.
C2_UnsupportedRaises ==
    /\ \A d \in log :
          d[1] \in UnsupportedTypes =>
              /\ d[2] = "raise"
              /\ pc = "raised"
              /\ error = [exc |-> "NotImplementedError", type |-> d[1]]
    /\ \A d \in log : d[2] = "raise" => d[1] \in UnsupportedTypes
    /\ \A d \in log : d[2] \in {"raise", ClaimedHandler(d[1])}

C2_Witness ==
    /\ pc = "raised"
    /\ model = "BadSub"
    /\ <<"MyInt", "raise">> \in log
    /\ error = [exc |-> "NotImplementedError", type |-> "MyInt"]

\* the annotations directly inside a type: arguments and field types
Inside(t) ==
    Range(TypeInfo(t).args)
        \cup {TypeInfo(t).fields[i][2] : i \in DOMAIN TypeInfo(t).fields}

RECURSIVE Closure(_)
Closure(ts) ==
    LET more == ts \cup UNION {Inside(t) : t \in ts}
    IN  IF more = ts THEN ts ELSE Closure(more)

\* every type nested anywhere inside a model, the model included
Nested(m) == Closure({m})

\* C3: when a type nested anywhere inside the model (list item, mapping key
\* or value, union branch, record field, at any depth) has no handler, the
\* NotImplementedError reaches Input's caller and no binding is returned
\* for any enclosing container; a union's branches are all built when the
\* form is built, so the second branch fails the build too.
C3_FailurePropagates ==
    (pc # "idle" /\ model \in Models
         /\ Nested(model) \cap UnsupportedTypes # {}) =>
        /\ pc = "raised"
        /\ error.exc = "NotImplementedError"
        /\ error.type \in Nested(model) \cap UnsupportedTypes
        /\ root = 0
        /\ heap = <<>>

C3_Witness ==
    /\ pc = "raised"
    /\ model = "BadNested"
    /\ error = [exc |-> "NotImplementedError", type |-> "dict"]
    /\ root = 0

\* C4 as stated: a build that fails with the unsupported-type error has
\* constructed no editor node when the error is raised.
C4_NothingCreated ==
    (pc = "raised" /\ error.exc = "NotImplementedError") => created = 0

\* the Qt widgets the handlers construct before the failing dispatch:
\* BadRaw: form, spin box.  BadValue: form, key line edit.
\* BadBranch: form, line edit, union container, selector and stack, spin box.
\* BadNested: form; dialog, button, two editors, button box of "ok";
\* dialog, button, line edit, union container, selector, stack, spin box.
CreatedBeforeRaise ==
    [m \in {"BadRaw", "BadSub", "BadPair", "BadItem", "BadValue", "BadKey",
            "BadBranch", "BadNested"} |->
        CASE m = "BadRaw" -> 2
          [] m = "BadValue" -> 2
          [] m = "BadBranch" -> 6
          [] m = "BadNested" -> 13
          [] OTHER -> 1]

\* C4, amended: a build that fails with the unsupported-type error hands no
\* editor node to the caller (no root binding, no editor of the form), but
\* the widgets constructed before the failing dispatch were constructed:
\* at least the root form, and with it the earlier fields, the union's
\* container, selector, stack and earlier branches, the mapping's key editor.
C4_NothingSurfaced ==
    (pc = "raised" /\ error.exc = "NotImplementedError") =>
        /\ heap = <<>>
        /\ root = 0
        /\ created >= 1
        /\ created = CreatedBeforeRaise[model]

C4_Witness ==
    /\ pc = "raised"
    /\ model = "BadBranch"
    /\ error = [exc |-> "NotImplementedError", type |-> "dict"]
    /\ created = 6
    /\ heap = <<>>


\* the field names the model declares, in declaration order
FieldNames(t) == [i \in DOMAIN TypeInfo(t).fields |-> TypeInfo(t).fields[i][1]]

FieldTypes(t) == [i \in DOMAIN TypeInfo(t).fields |-> TypeInfo(t).fields[i][2]]

\* C5: a confirmation (OK) calls the root getter exactly once and the
\* session ends returning its result: a mapping whose keys are exactly the
\* root model's field names, each mapped to the value its child getter
\* returned at the moment of confirmation.
C5_ConfirmReturnsFields ==
    (pc = "returned" /\ button = "Ok") =>
        /\ getter_calls = 1
        /\ vals[1] = "dict"
        /\ Len(vals[2]) = Len(FieldNames(model))
        /\ \A i \in DOMAIN FieldNames(model) :
              LET g == Get(heap, heap[root].kids[i]).out
              IN  /\ vals[2][i][1] = FieldName(FieldNames(model)[i])
                  /\ IsOk(g)
                  /\ vals[2][i][2] = g[2]

\* C6: a cancellation (Cancel, or closing the window) ends the session with
\* an empty mapping whatever edits, adds and removes came before, the root
\* getter is not called at or after it, and a session that has ended ended
\* by exactly one of Ok and Cancel and stays so.
C6_CancelReturnsEmpty ==
    [][ /\ (pc = "exec" /\ button' = "Cancel") =>
              (pc' = "returned" /\ vals' = EmptyDict /\ getter_calls' = 0)
        /\ button = "Cancel" =>
              (button' = "Cancel" /\ vals' = EmptyDict /\ getter_calls' = 0)
        /\ pc' = "returned" <=> button' \in {"Ok", "Cancel"}
        /\ button # "None" => (button' = button /\ pc' = "returned")
      ]_vars

C6_Witness ==
    /\ pc = "returned"
    /\ button = "Cancel"
    /\ model = "Tags"
    /\ \E w \in Nodes :
          /\ heap[w].handler = "handle_list"
          /\ heap[w].rows = <<IntText(3), IntText(1)>>
    /\ vals = EmptyDict
    /\ getter_calls = 0

\* C7: for a list editor the getter returns exactly the entries added and
\* not removed, in the order they were added: an add appends the staged
\* value at the end, a remove of entry i closes the gap.
C7_ListKeepsOrder ==
    [][ \A w \in Nodes :
          (pc = "exec" /\ heap[w].handler = "handle_list") =>
              LET before == Get(heap, w).out
                  after == Get(heap', w).out
                  item == Get(heap, heap[w].kids[1]).out
              IN  /\ ClickAdd(w) =>
                        /\ IsOk(before) /\ IsOk(after) /\ IsOk(item)
                        /\ after[2] = PyList(Append(before[2][2], item[2]))
                  /\ \A i \in DOMAIN heap[w].rows :
                        RemoveItem(w, i) =>
                            /\ IsOk(before) /\ IsOk(after)
                            /\ after[2] = PyList(RemoveAt(before[2][2], i))
      ]_vars

\* the key texts of the rows a DictEditWidget displays
ShownKeys(node) == {node.rows[i][1] : i \in DOMAIN node.rows}

C9_UnionFollowsSelector ==
    \A w \in Nodes :
        heap[w].handler = "handle_union" =>
            LET node == heap[w]
                branch == node.kids[node.index + 1]
                g == Get(heap, w)
            IN  /\ node.index \in 0..(Len(node.kids) - 1)
                /\ node.stackIndex = node.index
                /\ Len(node.kids) = Len(get_args(node.type))
                /\ heap[branch].type = get_args(node.type)[node.index + 1]
                /\ g.out = Get(heap, branch).out
                /\ g.calls = <<w>> \o Get(heap, branch).calls
                /\ \A k \in Range(node.kids) \ {branch} : k \notin Range(g.calls)
                /\ heap[branch].handler = "handle_None" => g.out = Ok(None)

C9_Witness ==
    /\ pc = "exec"
    /\ \E w \in Nodes :
          /\ heap[w].type = "Union[int, str]"
          /\ heap[w].index = 1
          /\ heap[heap[w].kids[1]].value = PyInt(0)
          /\ Get(heap, w).out = Ok(PyStr(S_b))

RECURSIVE Flatten(_)
Flatten(seqs) == IF seqs = <<>> THEN <<>> ELSE Head(seqs) \o Flatten(Tail(seqs))

\* C10: a record has one child binding per field, in declaration order, and
\* each call of its getter calls every child getter exactly once, in that
\* order, and returns a mapping with exactly the field names as keys, each
\* mapped to the value its own field's getter returned; nested records
\* included.
C10_RecordGetter ==
    \A w \in Nodes :
        heap[w].handler = "handle_BaseModel" =>
            LET node == heap[w]
                names == FieldNames(node.type)
                g == Get(heap, w)
            IN  /\ Len(node.kids) = Len(names)
                /\ \A i \in DOMAIN names :
                      heap[node.kids[i]].type = FieldTypes(node.type)[i]
                /\ g.calls = <<w>> \o Flatten([i \in DOMAIN names |->
                                 Get(heap, node.kids[i]).calls])
                /\ IsOk(g.out)
                /\ g.out[2] = PyDict([i \in DOMAIN names |->
                                 <<FieldName(names[i]),
                                   Get(heap, node.kids[i]).out[2]>>])

\* C11: extraction is idempotent and leaves the editors alone: for every
\* binding, a call of its getter leaves every editor as it was (values, list
\* entries, mapping rows and recorded keys, selected branch), and a second
\* call right after the first has the same outcome as the first.
C11_ExtractionIdempotent ==
    \A w \in Nodes :
        LET first == Get(heap, w)
            second == Get(first.heap, w)
        IN  /\ first.heap = heap
            /\ second.heap = heap
            /\ second.out = first.out
            /\ second.calls = first.calls

C11_Witness ==
    /\ pc = "returned"
    /\ button = "Ok"
    /\ model = "Tags"
    /\ getter_calls = 1
    /\ heap[root].handler = "handle_BaseModel"
    /\ heap[heap[root].kids[1]].rows = <<IntText(3), IntText(1)>>
    /\ vals = PyDict(<< <<FieldName("tags"),
                          PyList(<<PyInt(3), PyInt(1)>>)>> >>)
    /\ Get(heap, root).out = Ok(vals)

\* C12: the getter of a primitive editor (int, float / Decimal, str, bool,
\* date, time, datetime) returns the value the editor holds now, whatever
\* it held when the binding was built.
C12_PrimitiveReadsCurrent ==
    \A w \in Nodes :
        heap[w].handler \in {"handle_int", "handle_numeric", "handle_str",
                             "handle_bool", "handle_date", "handle_time",
                             "handle_datetime"} =>
            Get(heap, w).out = Ok(heap[w].value)

\* C13: the editor of an Enum field lists the members in declaration order,
\* and with entry i selected its getter returns the value of the i-th
\* declared member (the value itself, also where it is not the entry's
\* text); so a form with an Enum field of any member type gets built.
C13_EnumReturnsMemberValue ==
    /\ \A w \in Nodes :
          heap[w].handler = "handle_enums" =>
              LET node == heap[w]
                  members == TypeInfo(node.type).members
              IN  /\ Len(node.items) = Len(members)
                  /\ \A i \in DOMAIN members : node.items[i] = str(members[i])
                  /\ node.index \in 0..(Len(members) - 1)
                  /\ Get(heap, w).out = Ok(members[node.index + 1])
    /\ \A d \in log :
          (d[2] = "handle_enums" /\ pc = "raised") => error.type # d[1]

\* C14: the editor of a Literal field has one entry per declared value, in
\* declaration order, and with the i-th entry selected its getter returns
\* the i-th declared value itself, with its own type; also for a Literal
\* whose values have the same text, such as 1 and "1".
C14_LiteralReturnsDeclared ==
    \A w \in Nodes :
        heap[w].handler = "handle_literal" =>
            LET node == heap[w]
                declared == TypeInfo(node.type).literals
            IN  /\ Len(node.items) = Len(declared)
                /\ \A i \in DOMAIN declared : node.items[i] = str(declared[i])
                /\ node.index \in 0..(Len(declared) - 1)
                /\ Get(heap, w).out = Ok(declared[node.index + 1])

IsSpinBox(node) == node.handler \in {"handle_int", "handle_numeric"}

\* the bounds the schema declares for field i of record type t: <<ge, le>>,
\* or <<>> when it declares none
DeclaredBounds(t, i) ==
    LET field == TypeInfo(t).fields[i]
    IN  IF Len(field) = 4 THEN <<field[3], field[4]>> ELSE <<>>

\* C15 as stated: an int or float / Decimal editor holds, and its getter
\* returns, a value in [-2^31, 2^31 - 1], and a value within the bounds the
\* schema declares for the field where it declares tighter ones.
C15_SchemaBoundsApplied ==
    \A w \in Nodes :
        heap[w].handler = "handle_BaseModel" =>
            \A i \in DOMAIN heap[w].kids :
                LET kid == heap[heap[w].kids[i]]
                    declared == DeclaredBounds(heap[w].type, i)
                    out == Get(heap, heap[w].kids[i]).out
                IN  IsSpinBox(kid) =>
                        /\ IsOk(out)
                        /\ IntMin <= out[2][2] /\ out[2][2] <= IntMax
                        /\ declared # <<>> =>
                               /\ declared[1] <= out[2][2]
                               /\ out[2][2] <= declared[2]

\* C15, amended: every int and float / Decimal editor has the range
\* [-2^31, 2^31 - 1], whatever bounds the schema declares for the field;
\* the value it holds and its getter returns is never outside that range.
C15_FixedRange ==
    \A w \in Nodes :
        IsSpinBox(heap[w]) =>
            /\ heap[w].minimum = IntMin
            /\ heap[w].maximum = IntMax
            /\ Get(heap, w).out = Ok(heap[w].value)
            /\ IntMin <= heap[w].value[2] /\ heap[w].value[2] <= IntMax

C15_Witness ==
    /\ pc = "exec"
    /\ model = "Bounded"
    /\ DeclaredBounds("Bounded", 1) = <<1, 2>>
    /\ heap[heap[root].kids[1]].minimum = IntMin
    /\ Get(heap, heap[root].kids[1]).out = Ok(PyInt(3))

\* the getter of node w of the editors h returns the zero value of its
\* kind: "" for str, 0 for int and float, False for bool, [] for a list,
\* {} for a mapping, the first declared value for an Enum and a Literal,
\* what the first branch returns for a union, and for a record every
\* declared field name mapped to what its child returns.  The kinds with no
\* stated zero value (date, time, datetime, None) only have to return.
ReturnsZero(h, w) ==
    LET node == h[w]
        out == Get(h, w).out
        kind == node.handler
    IN  /\ IsOk(out)
        /\ kind = "handle_str" => out[2] = PyStr(<<>>)
        /\ kind = "handle_int" => out[2] = PyInt(0)
        /\ kind = "handle_numeric" => out[2] = PyFloat(0)
        /\ kind = "handle_bool" => out[2] = PyBool(FALSE)
        /\ kind = "handle_list" => out[2] = PyList(<<>>)
        /\ kind = "handle_dict" => out[2] = EmptyDict
        /\ kind = "handle_enums" => out[2] = TypeInfo(node.type).members[1]
        /\ kind = "handle_literal" => out[2] = TypeInfo(node.type).literals[1]
        /\ kind = "handle_union" =>
               /\ h[node.kids[1]].type = get_args(node.type)[1]
               /\ out = Get(h, node.kids[1]).out
        /\ kind = "handle_BaseModel" =>
               out[2] = PyDict([i \in DOMAIN FieldNames(node.type) |->
                            <<FieldName(FieldNames(node.type)[i]),
                              Get(h, node.kids[i]).out[2]>>])

\* C16: right after the form of a schema of supported types is built, with
\* no interaction yet, every getter returns (none raises) and returns the
\* zero value of its node; so the root returns the record of zero values.
C16_FreshFormReturnsZero ==
    [][ (pc = "idle" /\ pc' = "exec") =>
            \A w \in DOMAIN heap' : ReturnsZero(heap', w) ]_vars

\* the types a handler dispatches for type t: item, key and value, branches,
\* field annotations
ChildTypes(t) == TypeInfo(t).args \o FieldTypes(t)

\* a type that contains itself, directly or through a list, mapping, union
\* or record
ContainsItself(t) == t \in Closure(Inside(t))

Recursive(m) == \E t \in Nested(m) : ContainsItself(t)

RECURSIVE TreeSize(_)

RECURSIVE TreeSizes(_)
TreeSizes(types) ==
    IF types = <<>> THEN 0 ELSE TreeSize(Head(types)) + TreeSizes(Tail(types))

\* the number of type nodes of the schema tree below (and with) t
TreeSize(t) == 1 + TreeSizes(ChildTypes(t))

\* C17: the build of a schema in which no record contains itself ends, and
\* where it returns a binding it has made exactly one dispatch and built
\* exactly one binding per type node of the schema tree, the children of a
\* node before the node; the build of a schema in which a record contains
\* itself nests calls up to the interpreter's limit (there is no cycle
\* guard) and returns no binding.
C17_ConstructionTerminates ==
    /\ (pc # "idle" /\ ~Recursive(model)) =>
          /\ error.exc # "RecursionError"
          /\ pc \in {"exec", "returned"} =>
                /\ dispatched = TreeSize(model)
                /\ Len(heap) = TreeSize(model)
                /\ root = Len(heap)
                /\ \A w \in Nodes :
                      /\ \A k \in Range(heap[w].kids) : k < w
                      /\ [i \in DOMAIN heap[w].kids |-> heap[heap[w].kids[i]].type]
                             = ChildTypes(heap[w].type)
    /\ (pc # "idle" /\ Recursive(model)) =>
          /\ pc = "raised"
          /\ error.exc = "RecursionError"
          /\ dispatched > MaxDepth
          /\ root = 0
          /\ heap = <<>>

C17_Witness ==
    /\ pc = "raised"
    /\ model = "Node"
    /\ ContainsItself("Node")
    /\ error = [exc |-> "RecursionError", type |-> "Node"]
    /\ dispatched > MaxDepth
    /\ root = 0

\* C18: a list or mapping editor has one item editor (one key editor and
\* one value editor) that every add reads and none changes: after an add
\* the editor has the same staging editors in the same state, returning
\* the same values, and the list has the staged value's text appended; so
\* a second add with no edit in between appends the same value again.
C18_StagingEditorKept ==
    [][ \A w \in Nodes :
          /\ ClickAdd(w) =>
                LET kid == heap[w].kids[1]
                    item == Get(heap, kid).out
                IN  /\ Len(heap[w].kids) = 1
                    /\ heap'[w].kids = heap[w].kids
                    /\ \A k \in Nodes \ {w} : heap'[k] = heap[k]
                    /\ Get(heap', kid).out = item
                    /\ IsOk(item) =>
                          heap'[w].rows = Append(heap[w].rows, repr(item[2]))
          /\ ClickAddPair(w) =>
                LET key == Get(heap, heap[w].kids[1]).out
                    value == Get(heap, heap[w].kids[2]).out
                IN  /\ Len(heap[w].kids) = 2
                    /\ heap'[w].kids = heap[w].kids
                    /\ \A k \in Nodes \ {w} : heap'[k] = heap[k]
                    /\ Get(heap', heap[w].kids[1]).out = key
                    /\ Get(heap', heap[w].kids[2]).out = value
      ]_vars

C18_Witness ==
    /\ pc = "exec"
    /\ model = "Tags"
    /\ \E w \in Nodes :
          /\ heap[w].handler = "handle_list"
          /\ heap[w].rows = <<IntText(2), IntText(2)>>
          /\ Get(heap, heap[w].kids[1]).out = Ok(PyInt(2))

\* C19: a value read from the item editor and added to a list is kept so
\* that the list's getter returns afterwards, with that value, of the same
\* type, as its last entry; for every item type that has a handler.
C19_ListRoundTrip ==
    [][ \A w \in Nodes :
          ClickAdd(w) =>
              LET item == Get(heap, heap[w].kids[1]).out
                  after == Get(heap', w).out
              IN  IsOk(item) =>
                      /\ IsOk(after)
                      /\ Len(after[2][2]) = Len(heap[w].rows) + 1
                      /\ after[2][2][Len(after[2][2])] = item[2]
      ]_vars

\* the items of the dict a mapping editor's getter returns
Extracted(h, w) == Get(h, w).out[2][2]

\* C20: the getter of a mapping editor returns exactly the pairs that were
\* accepted and not removed: it has one item per displayed row, an accepted
\* add puts the added key with the added value behind the items there
\* were, and a remove takes out the items of the removed rows and no
\* other; for every key and value type that has a handler.
C20_MappingKeepsAccepted ==
    [][ \A w \in Nodes :
          heap[w].handler = "handle_dict" =>
              /\ IsOk(Get(heap', w).out)
              /\ Len(Extracted(heap', w)) = Len(heap'[w].rows)
              /\ (ClickAddPair(w) /\ heap'[w].rows # heap[w].rows) =>
                     Extracted(heap', w) =
                         Append(Extracted(heap, w),
                                <<Get(heap, heap[w].kids[1]).out[2],
                                  Get(heap, heap[w].kids[2]).out[2]>>)
              /\ \A sel \in SUBSET (DOMAIN heap[w].rows) :
                     RemoveRows(w, sel) =>
                         Extracted(heap', w) =
                             removeEach(Extracted(heap, w), sel)
      ]_vars

\* C21: in a mapping editor the recorded set of used keys is the set of the
\* keys of the displayed pairs, after any adds and removes; so an add of
\* (k, v) after the pair with key k was removed is accepted (no warning, a
\* row for it, k mapped to v in what the getter returns).
C21_KeysMatchRows ==
    [][ \A w \in Nodes :
          heap[w].handler = "handle_dict" =>
              /\ {repr(k) : k \in heap'[w].keys} = ShownKeys(heap'[w])
              /\ ClickAddPair(w) =>
                     LET key == Get(heap, heap[w].kids[1]).out
                         value == Get(heap, heap[w].kids[2]).out
                     IN  (/\ IsOk(key) /\ IsOk(value) /\ Hashable(key[2])
                          /\ repr(key[2]) \notin ShownKeys(heap[w])) =>
                             /\ printed' = "None"
                             /\ heap'[w].rows =
                                    Append(heap[w].rows,
                                           <<repr(key[2]), repr(value[2])>>)
      ]_vars

====
